---------------------------- MODULE Spec2Model ----------------------------
(***************************************************************************)
(* A model of airspyhf_decimator (src/src/main.cpp): the stdin -> mixer -> *)
(* three FIR decimators -> framer -> UDP pipeline of main(), and its       *)
(* components FirDecimator and TimestampEncoder on their own.              *)
(*                                                                         *)
(* Sample values.  The program computes on float32/double values with      *)
(* cos, sin, multiply and add.  None of its control flow reads a sample    *)
(* value, so a sample is modelled by the expression that computes it,      *)
(* written as a flat sequence of integers:                                 *)
(*   - a decoded input sample is the 8 bytes it was copied from;           *)
(*   - a mixed sample is the input sample followed by the mixer phase it   *)
(*     was rotated by;                                                     *)
(*   - a FIR output is the accumulator's history: for every tap k, in the  *)
(*     order of the loop, the coefficient index k and the state entry that  *)
(*     was multiplied by it;                                               *)
(*   - the value-initialised complex<float> (0,0) is the empty sequence.   *)
(* Two samples with the same expression are the same bits, because every   *)
(* operation is a deterministic function of its operands.                  *)
(***************************************************************************)
EXTENDS Integers, Sequences, FiniteSets, TLC

(***************************************************************************)
(* Program constants.                                                      *)
(***************************************************************************)
kBytesPerIQ == 8
kTotalDecimation == 200
Stage1Factor == 8
Stage2Factor == 5
Stage3Factor == 5
ExitUsage == 64

(***************************************************************************)
(* Bounds of the program run (Spec).                                       *)
(*   StageTaps stands for the tap counts 8*16, 5*16, 5*16 the three stages *)
(*   are constructed with: it bounds the size of a sample's expression.    *)
(*   MaxOutputSamples bounds stdin: its length is within a few bytes of a   *)
(*   multiple of the kBytesPerIQ * kTotalDecimation bytes that make one    *)
(*   output sample, up to MaxOutputSamples of them.                        *)
(*   MaxSendFaults bounds how many sendto calls of a run fail or fall       *)
(*   short.                                                                *)
(***************************************************************************)
StageTaps == 3
MaxOutputSamples == 4
MaxSendFaults == 1

(***************************************************************************)
(* Bounds of the FirDecimator harness (SpecFir).                           *)
(***************************************************************************)
MaxFirFactor == 3
MaxFirTaps == 4
MaxFirInput == 8

(***************************************************************************)
(* Bounds of the TimestampEncoder harness (SpecTs) and of the arithmetic.  *)
(* TLC's integers are 32-bit, so the widths of the program's               *)
(* unsigned types and its nanoseconds-per-second constant are scaled down  *)
(* together, keeping the order the program has:                            *)
(*   1000000000 < 2^32  and  1000000000 * 2^32 < 2^64  (uint64_t).         *)
(* The 128-bit product sampleIndex * 1000000000 never wraps in the program *)
(* (both factors are below 2^64) and is an exact product here.             *)
(***************************************************************************)
NsPerSec == 3         \* stands for 1000000000
U32Bits == 2          \* stands for the 32 of uint32_t
U64Bits == 5          \* stands for the 64 of uint64_t
MaxRateHz == 5        \* integer output rates 1..MaxRateHz

U32Mod == 2 ^ U32Bits
U64Mod == 2 ^ U64Bits

VARIABLES
  \* the process and its environment
  pc,                     \* "start", "loop" or "exit"
  argv,                   \* argv[1..]: the command line after the program name
  stdinLen,               \* bytes the stdin stream holds before EOF
  cinGood,                \* std::cin.good()
  exitCode,               \* main's return value (or std::exit's argument)
  usagePrinted,           \* printUsage was called
  failure,                \* what() of the exception main caught, "" when none
  \* main()'s locals
  opts,
  stage1, stage2, stage3,
  timestampEncoder,
  streamer,
  frequencyShifter,
  carry,
  buffer,
  samplesSent,
  inputSamplesProcessed,
  outputSamplesProduced,
  framesSent,
  stdinBytesRead,
  \* history of the run
  sent,                   \* every frame handed to streamer.send, with the sample
                          \* index its header was asked for
  wire,                   \* every sendto call: <<frame number, port>>
  decimated,              \* everything stage3.process returned, in order
  sendFaults,             \* how many sendto calls so far failed or fell short
  lastRead                \* the last iteration: gcount, the carry it started with,
                          \* how many bytes it handed to convertToComplex and the
                          \* first sample's worth of them, the datagrams it framed
                          \* and the sendto faults it met

envVars == <<pc, argv, stdinLen, cinGood, exitCode, usagePrinted, failure>>
objVars == <<opts, stage1, stage2, stage3, timestampEncoder, streamer, frequencyShifter>>
loopVars == <<carry, buffer, samplesSent, inputSamplesProcessed, outputSamplesProduced,
              framesSent, stdinBytesRead>>
histVars == <<sent, wire, decimated, sendFaults, lastRead>>
mainVars == <<envVars, objVars, loopVars, histVars>>

VARIABLES
  tsEncoder,    \* SpecTs: the TimestampEncoder under test
  tsCall,       \* SpecTs: the last headerForSample call since the last reset():
                \*         index, anchor used, returned fields, and whether it
                \*         followed a call on a smaller index
  decConfig,    \* SpecFir: the (factor, taps) the decimator was constructed with
  decimator,    \* SpecFir: the FirDecimator under test
  decFed,       \* SpecFir: samples handed to process() so far, over all calls
  decOutput,    \* SpecFir: concatenation of everything process() returned
  decCall       \* SpecFir: the last process() call: prior phase, N, returned count

firVars == <<decConfig, decimator, decFed, decOutput, decCall>>
tsVars == <<tsEncoder, tsCall>>
vars == <<mainVars, firVars, tsVars>>

----------------------------------------------------------------------------
(***************************************************************************)
(* designLowpass: the length of the coefficient vector; the coefficient    *)
(* values are floats the model does not interpret, coeffs[n] is named n.   *)
(***************************************************************************)
\* (mutation of designLowpassLen: the requested length made odd but not raised
\* to 3)
designLowpassLenAsAsked(taps) == IF taps % 2 = 0 THEN taps + 1 ELSE taps

designLowpassLen(taps) ==
  LET t == IF taps < 3 THEN 3 ELSE taps
  IN IF t % 2 = 0 THEN t + 1 ELSE t

designLowpass(taps) == [n \in 1..designLowpassLen(taps) |-> n - 1]

\* complex<float>{}: the value state_ is filled with at construction.
ZeroSample == <<>>

\* FirDecimator::FirDecimator(factor, taps, cutoff)
FirDecimator(factor, taps) ==
  [factor |-> factor,
   taps |-> designLowpass(taps),
   state |-> [i \in 1..designLowpassLen(taps) |-> ZeroSample],
   writeIndex |-> 0,
   phase |-> 0]

\* acc += state_[idx] * taps_[k]
MulAdd(acc, x, c) == acc \o <<c, Len(x)>> \o x

\* The inner loop of process(): k = 0 .. taps_.size()-1, idx walking back
\* from writeIndex_ with wrap-around.  Indices are the code's 0-based ones.
RECURSIVE Accumulate(_, _, _, _, _)
Accumulate(state, taps, k, idx, acc) ==
  IF k >= Len(taps) THEN acc
  ELSE LET i == IF idx = 0 THEN Len(state) - 1 ELSE idx - 1
       IN Accumulate(state, taps, k + 1, i, MulAdd(acc, state[i + 1], taps[k + 1]))

\* (mutation of EmitsAt: the phase tested before it is advanced)
EmitsAtBefore(phaseAfter, phaseBefore) == phaseBefore = 0

\* When the decimation phase is tested for an output: after the increment.
EmitsAt(phaseAfter, phaseBefore) == phaseAfter = 0

\* One pass of the body of `for (const auto &sample : input)`.
FirStep(d, sample) ==
  LET st == [d.state EXCEPT ![d.writeIndex + 1] = sample]
      w == (d.writeIndex + 1) % Len(d.state)
      p == (d.phase + 1) % d.factor
  IN [dec |-> [d EXCEPT !.state = st, !.writeIndex = w, !.phase = p],
      out |-> IF EmitsAt(p, d.phase)
              THEN <<Accumulate(st, d.taps, 0, w, ZeroSample)>>
              ELSE <<>>]

RECURSIVE ProcessLoop(_, _, _, _)
\* The passes of the loop for input[lo] .. input[hi], in order.  (The range is
\* split in two so that a long input does not nest the evaluation deeply.)
ProcessLoop(d, input, lo, hi) ==
  IF lo > hi THEN [dec |-> d, out |-> <<>>]
  ELSE IF lo = hi THEN FirStep(d, input[lo])
  ELSE LET mid == (lo + hi) \div 2
           a == ProcessLoop(d, input, lo, mid)
           b == ProcessLoop(a.dec, input, mid + 1, hi)
       IN [out |-> a.out \o b.out, dec |-> b.dec]

\* (mutation of EnterProcess: the decimation phase restarted on every call)
EnterProcessRestart(d) == [d EXCEPT !.phase = 0]

\* The decimator a process() call starts from: the object as the last call left it.
EnterProcess(d) == d

\* FirDecimator::process(input): the decimator afterwards and the returned vector.
process(d, input) ==
  IF d.factor <= 0 \/ Len(d.taps) = 0
  THEN [dec |-> d, out |-> <<>>]
  ELSE ProcessLoop(EnterProcess(d), input, 1, Len(input))

----------------------------------------------------------------------------
(***************************************************************************)
(* TimestampEncoder.  A sample rate is the exact fraction num/den Hz.      *)
(* The double arithmetic of the constructor and of the non-integer branch  *)
(* is taken as exact arithmetic on that fraction.                          *)
(***************************************************************************)
\* TimestampEncoder::TimestampEncoder(sampleRate)
TimestampEncoder(rate) ==
  [sampleRate |-> rate,
   sampleRateHz |-> IF rate.num > 0 /\ rate.num % rate.den = 0
                    THEN rate.num \div rate.den ELSE 0,
   baseSec |-> 0,
   baseNsec |-> 0,
   anchored |-> FALSE]

\* TimestampEncoder::reset()
reset(enc) == [enc EXCEPT !.anchored = FALSE]

\* TimestampEncoder::anchorToWallClock(); tv is what clock_gettime returned.
anchorToWallClock(enc, tv) ==
  [enc EXCEPT !.baseSec = tv.sec % U32Mod,
              !.baseNsec = tv.nsec % U32Mod,
              !.anchored = TRUE]

\* (mutation of NsNumerator: the product taken in 64 bits)
NsNumerator64(sampleIndex) == (sampleIndex * NsPerSec) % U64Mod

\* nsNumerator: the unsigned __int128 product.
NsNumerator(sampleIndex) == sampleIndex * NsPerSec

\* nsOffset: the quotient cast to uint64_t.
NsOffset(enc, sampleIndex) ==
  (NsNumerator(sampleIndex) \div enc.sampleRateHz) % U64Mod

\* nsecTotal: uint64_t addition.
NsecTotal(enc, sampleIndex) == (enc.baseNsec + NsOffset(enc, sampleIndex)) % U64Mod

\* (mutation of SecondsField: the whole seconds of the offset not carried)
SecondsFieldNoCarry(enc, nsecTotal) == enc.baseSec

\* seconds = baseSec_ + static_cast<uint32_t>(nsecTotal / 1000000000ULL)
SecondsField(enc, nsecTotal) ==
  (enc.baseSec + ((nsecTotal \div NsPerSec) % U32Mod)) % U32Mod

\* nanoseconds = static_cast<uint32_t>(nsecTotal % 1000000000ULL)
NanosecondsField(nsecTotal) == (nsecTotal % NsPerSec) % U32Mod

\* The non-integer branch: absolute = baseSeconds_ + sampleIndex / sampleRate_,
\* in units of 1/(NsPerSec * num) seconds; round() is half away from zero.
\* (The conversion of `absolute` to uint32_t is defined only below 2^32
\* seconds; the runs of Spec stay below.)
DoublePath(enc, sampleIndex) ==
  LET num == enc.sampleRate.num
      den == enc.sampleRate.den
      absolute == (enc.baseSec * NsPerSec + enc.baseNsec) * num
                    + sampleIndex * den * NsPerSec
      seconds == absolute \div (NsPerSec * num)
      fractional == absolute - seconds * NsPerSec * num
      nanoseconds == (2 * fractional + num) \div (2 * num)
  IN IF nanoseconds >= NsPerSec
     THEN <<(seconds + 1) % U32Mod, nanoseconds - NsPerSec>>
     ELSE <<seconds % U32Mod, nanoseconds>>

\* headerForSample once anchored: the two uint32 fields whose bit patterns
\* are copied into the returned complex<float>.
HeaderFields(enc, sampleIndex) ==
  IF enc.sampleRateHz > 0
  THEN LET nsecTotal == NsecTotal(enc, sampleIndex)
       IN <<SecondsField(enc, nsecTotal), NanosecondsField(nsecTotal)>>
  ELSE DoublePath(enc, sampleIndex)

\* (mutation of AnchorIfNeeded: the anchor taken again on every call)
AnchorAlways(enc, tv) == anchorToWallClock(enc, tv)

\* if (!anchored_) anchorToWallClock();
AnchorIfNeeded(enc, tv) == IF ~enc.anchored THEN anchorToWallClock(enc, tv) ELSE enc

\* TimestampEncoder::headerForSample(sampleIndex): the encoder afterwards and
\* the returned header.
headerForSample(enc, sampleIndex, tv) ==
  LET e == AnchorIfNeeded(enc, tv)
  IN [enc |-> e, header |-> HeaderFields(e, sampleIndex)]

\* What clock_gettime(CLOCK_REALTIME) may return: tv_nsec is below one second.
WallClock == [sec : 0..(U32Mod - 1), nsec : 0..(NsPerSec - 1)]

\* The clock is read only by a call that anchors.
ClockReads(enc) == IF enc.anchored THEN {[sec |-> 0, nsec |-> 0]} ELSE WallClock

----------------------------------------------------------------------------
(***************************************************************************)
(* Each specification runs one part of the module; the variables of the    *)
(* other parts are parked at fixed values.                                 *)
(***************************************************************************)
NoDecCall == [made |-> FALSE, priorPhase |-> 0, n |-> 0, count |-> 0]

NoTsCall ==
  [made |-> FALSE, n |-> 0, baseSec |-> 0, baseNsec |-> 0, sec |-> 0, nsec |-> 0,
   later |-> FALSE, clock |-> [sec |-> 0, nsec |-> 0]]

IdleFir ==
  /\ decConfig = [factor |-> 0, taps |-> 0]
  /\ decimator = FirDecimator(0, 0)
  /\ decFed = 0
  /\ decOutput = <<>>
  /\ decCall = NoDecCall

IdleTs ==
  /\ tsEncoder = TimestampEncoder([num |-> 1, den |-> 1])
  /\ tsCall = NoTsCall

----------------------------------------------------------------------------
(***************************************************************************)
(* FrequencyShifter.  Rates and shifts are exact decimal numbers held as   *)
(* integer counts of tenths (of a Hz, of a kHz)   .  The phase is held   *)
(* in units of pi/sampleRate, so that kPi is sampleRate, kTwoPi is         *)
(* 2*sampleRate and the step 2*pi*shiftHz/sampleRate is 2*shiftHz; the     *)
(* double additions are taken as exact.                                    *)
(***************************************************************************)
\* FrequencyShifter::FrequencyShifter(sampleRate, shiftHz)
FrequencyShifter(sampleRate, shiftHz) ==
  LET rate == IF sampleRate <= 0 THEN 10 ELSE sampleRate
  IN [shiftHz |-> shiftHz,
      kPi |-> rate,
      kTwoPi |-> 2 * rate,
      step |-> IF shiftHz = 0 THEN 0 ELSE 2 * shiftHz,
      phase |-> 0]

\* sample *= complex<float>(cos(phase_), sin(phase_))
Rotate(sample, phase) == sample \o <<phase>>

\* phase_ += step_, then one fold towards (-pi, pi].
AdvancePhase(sh) ==
  LET p == sh.phase + sh.step
  IN IF p > sh.kPi THEN p - sh.kTwoPi
     ELSE IF p < -sh.kPi THEN p + sh.kTwoPi
     ELSE p

\* One pass of the body of `for (auto &sample : samples)`.
MixStep(sh, sample) ==
  [shifter |-> [sh EXCEPT !.phase = AdvancePhase(sh)],
   samples |-> <<Rotate(sample, sh.phase)>>]

RECURSIVE MixLoop(_, _, _, _)
\* The passes of the loop for samples[lo] .. samples[hi], in order.
MixLoop(sh, samples, lo, hi) ==
  IF lo > hi THEN [shifter |-> sh, samples |-> <<>>]
  ELSE IF lo = hi THEN MixStep(sh, samples[lo])
  ELSE LET mid == (lo + hi) \div 2
           a == MixLoop(sh, samples, lo, mid)
           b == MixLoop(a.shifter, samples, mid + 1, hi)
       IN [samples |-> a.samples \o b.samples, shifter |-> b.shifter]

\* FrequencyShifter::mix(samples): the shifter afterwards and the samples in place.
mix(sh, samples) ==
  IF sh.shiftHz = 0 \/ Len(samples) = 0
  THEN [shifter |-> sh, samples |-> samples]
  ELSE MixLoop(sh, samples, 1, Len(samples))

----------------------------------------------------------------------------
(***************************************************************************)
(* convertToComplex: each sample is the kBytesPerIQ bytes its two floats    *)
(* are copied from.                                                        *)
(***************************************************************************)
\* (mutation of SampleAt: the sample read one byte early)
SampleAtShifted(bytes, offset) == SubSeq(bytes, offset, offset + kBytesPerIQ - 1)

\* The sample at byte offset `offset` (0-based).
SampleAt(bytes, offset) == SubSeq(bytes, offset + 1, offset + kBytesPerIQ)

convertToComplex(bytes) ==
  IF Len(bytes) % kBytesPerIQ # 0
  THEN [ok |-> FALSE, what |-> "Unaligned IQ byte stream", samples |-> <<>>]
  ELSE [ok |-> TRUE, what |-> "",
        samples |-> [k \in 1..(Len(bytes) \div kBytesPerIQ) |->
                       SampleAt(bytes, (k - 1) * kBytesPerIQ)]]

----------------------------------------------------------------------------
(***************************************************************************)
(* UdpStreamer.  A socket is named by the port it sends to.                *)
(***************************************************************************)
\* inet_pton(AF_INET, ip) == 1, on the tokens a command line is made of.
inet_pton(ip) == ip = "127.0.0.1"

RECURSIVE OpenSockets(_, _, _, _, _)
\* The constructor's loop over ports; failAt is the socket() call that fails
\* (0: none does).
OpenSockets(ports, i, calls, failAt, sockets) ==
  IF i > Len(ports) THEN [ok |-> TRUE, sockets |-> sockets]
  ELSE IF ports[i] = 0 THEN OpenSockets(ports, i + 1, calls, failAt, sockets)
  ELSE IF calls + 1 = failAt THEN [ok |-> FALSE, sockets |-> sockets]
  ELSE OpenSockets(ports, i + 1, calls + 1, failAt, Append(sockets, ports[i]))

NoStreamer == [sockets |-> <<>>, packetsSent |-> 0, sendErrors |-> 0]

\* UdpStreamer::UdpStreamer(ip, ports)
UdpStreamer(ip, ports, failAt) ==
  IF ~inet_pton(ip)
  THEN [thrown |-> "runtime_error", what |-> "Invalid IPv4 address",
        streamer |-> NoStreamer]
  ELSE LET o == OpenSockets(ports, 1, 0, failAt, <<>>)
       IN IF ~o.ok
          THEN [thrown |-> "runtime_error", what |-> "Failed to create UDP socket",
                streamer |-> NoStreamer]
          ELSE IF Len(o.sockets) = 0
          THEN [thrown |-> "runtime_error", what |-> "No valid UDP ports configured",
                streamer |-> NoStreamer]
          ELSE [thrown |-> "", what |-> "",
                streamer |-> [NoStreamer EXCEPT !.sockets = o.sockets]]

\* What one sendto call may do.
SendOutcomes == {"sent", "failed", "short"}

\* (mutation of send: the loop over the sockets left at the first sendto that
\* fails or falls short)
sendUntilFault(st, frame, outcome) ==
  LET faults == {i \in 1..Len(st.sockets) : outcome[i] # "sent"}
      last == IF faults = {} THEN Len(st.sockets)
              ELSE CHOOSE i \in faults : \A j \in faults : i <= j
  IN [streamer |-> [st EXCEPT
                      !.packetsSent = st.packetsSent + 1,
                      !.sendErrors = st.sendErrors + (IF faults = {} THEN 0 ELSE 1)],
      calls |-> [i \in 1..last |-> st.sockets[i]]]

\* UdpStreamer::send(frame): outcome[i] is what the sendto on socket i did.
\* Returns the streamer afterwards and the ports sendto was called on, in order.
send(st, frame, outcome) ==
  [streamer |-> [st EXCEPT
                   !.packetsSent = st.packetsSent + 1,
                   !.sendErrors = st.sendErrors
                     + Cardinality({i \in 1..Len(st.sockets) : outcome[i] # "sent"})],
   calls |-> [i \in 1..Len(st.sockets) |-> st.sockets[i]]]

----------------------------------------------------------------------------
(***************************************************************************)
(* parseArgs.  A command line is a sequence of tokens; the library         *)
(* conversions are tabulated on the tokens command lines are made of.      *)
(***************************************************************************)
Flags == {"--help", "--input-rate", "--frame", "--chunk", "--ip", "--shift-khz",
          "--ports", "--bogus"}
Values == {"0", "1", "2", "3", "7", "200", "450", "300", "400", "-1", "0.1", "abc",
           "127.0.0.1", "localhost", "80", "80,81", ",", ""}
Tokens == Flags \cup Values

Converted(v) == [ok |-> TRUE, val |-> v]
NoConversion == [ok |-> FALSE, val |-> 0]

\* The leading unsigned decimal integer of a token, -1 when it has none.
LeadingInteger(tok) ==
  CASE tok = "0" -> 0
    [] tok = "1" -> 1
    [] tok = "2" -> 2
    [] tok = "3" -> 3
    [] tok = "7" -> 7
    [] tok = "200" -> 200
    [] tok = "450" -> 450
    [] tok = "300" -> 300
    [] tok = "400" -> 400
    [] tok = "0.1" -> 0
    [] tok = "127.0.0.1" -> 127
    [] tok = "80" -> 80
    [] tok = "80,81" -> 80
    [] OTHER -> -1

\* std::stod, in tenths: the longest prefix that is a number;
\* ok = FALSE is std::invalid_argument.
stod(tok) ==
  CASE tok = "-1" -> Converted(-10)
    [] tok = "0.1" -> Converted(1)
    [] LeadingInteger(tok) >= 0 /\ tok # "0.1" -> Converted(LeadingInteger(tok) * 10)
    [] OTHER -> NoConversion

\* std::stoul: the longest prefix that is an integer; ok = FALSE is
\* std::invalid_argument.  ("-1" converts to 2^64 - 1, which the model's
\* integers do not hold: no command line of Argvs hands it to stoul.)
stoul(tok) ==
  IF LeadingInteger(tok) >= 0 THEN Converted(LeadingInteger(tok)) ELSE NoConversion

\* The substrings the --ports loop takes from its value, in order.
PortTokens(value) ==
  CASE value = "" -> <<>>
    [] value = "," -> <<"">>
    [] value = "80,81" -> <<"80", "81">>
    [] OTHER -> <<value>>

\* std::stoul on a substring of a --ports value.
PortNumber(token) == IF token = "81" THEN Converted(81) ELSE stoul(token)

\* struct Options, with its default member initialisers.
DefaultOptions ==
  [inputRate |-> 7680000,
   packetSamples |-> 1024,
   chunkSamples |-> 16384,
   ip |-> "127.0.0.1",
   ports |-> <<10000, 10001>>,
   shiftKhz |-> 100]

ArgsError(what) == [thrown |-> "ArgsError", what |-> what, opts |-> DefaultOptions]
InvalidArgument == [thrown |-> "invalid_argument", what |-> "stod/stoul",
                    opts |-> DefaultOptions]

RECURSIVE PortsLoop(_, _, _)
\* The while loop of --ports: ok = FALSE when stoul throws.
PortsLoop(tokens, i, ports) ==
  IF i > Len(tokens) THEN [ok |-> TRUE, ports |-> ports]
  ELSE IF tokens[i] = "" THEN PortsLoop(tokens, i + 1, ports)
  ELSE LET p == PortNumber(tokens[i])
       IN IF ~p.ok THEN [ok |-> FALSE, ports |-> ports]
          ELSE PortsLoop(tokens, i + 1, Append(ports, p.val % 65536))

\* The checks after the loop over argv.
Validate(o) ==
  IF o.inputRate <= 0 THEN ArgsError("input-rate must be positive")
  ELSE IF o.packetSamples < 2
  THEN ArgsError("frame must be at least 2 samples (timestamp + payload)")
  ELSE IF o.chunkSamples = 0 THEN ArgsError("chunk size must be positive")
  ELSE [thrown |-> "", what |-> "", opts |-> o]

RECURSIVE ArgLoop(_, _, _)
\* The loop over argv; a[i] is argv[i], a[1] the first argument.
ArgLoop(a, i, o) ==
  IF i > Len(a) THEN Validate(o)
  ELSE IF a[i] = "--help" THEN [thrown |-> "exit", what |-> "", opts |-> o]
  ELSE IF a[i] = "--input-rate" THEN
    IF i + 1 > Len(a) THEN ArgsError("--input-rate requires a value")
    ELSE LET v == stod(a[i + 1])
         IN IF ~v.ok THEN InvalidArgument
            ELSE ArgLoop(a, i + 2, [o EXCEPT !.inputRate = v.val])
  ELSE IF a[i] = "--frame" THEN
    IF i + 1 > Len(a) THEN ArgsError("--frame requires a value")
    ELSE LET v == stoul(a[i + 1])
         IN IF ~v.ok THEN InvalidArgument
            ELSE ArgLoop(a, i + 2, [o EXCEPT !.packetSamples = v.val])
  ELSE IF a[i] = "--chunk" THEN
    IF i + 1 > Len(a) THEN ArgsError("--chunk requires a value")
    ELSE LET v == stoul(a[i + 1])
         IN IF ~v.ok THEN InvalidArgument
            ELSE ArgLoop(a, i + 2, [o EXCEPT !.chunkSamples = v.val])
  ELSE IF a[i] = "--ip" THEN
    IF i + 1 > Len(a) THEN ArgsError("--ip requires a value")
    ELSE ArgLoop(a, i + 2, [o EXCEPT !.ip = a[i + 1]])
  ELSE IF a[i] = "--shift-khz" THEN
    IF i + 1 > Len(a) THEN ArgsError("--shift-khz requires a value")
    ELSE LET v == stod(a[i + 1])
         IN IF ~v.ok THEN InvalidArgument
            ELSE ArgLoop(a, i + 2, [o EXCEPT !.shiftKhz = v.val])
  ELSE IF a[i] = "--ports" THEN
    IF i + 1 > Len(a) THEN ArgsError("--ports requires a value")
    ELSE LET r == PortsLoop(PortTokens(a[i + 1]), 1, <<>>)
         IN IF ~r.ok THEN InvalidArgument
            ELSE IF Len(r.ports) = 0
            THEN ArgsError("--ports requires at least one port number")
            ELSE ArgLoop(a, i + 2, [o EXCEPT !.ports = r.ports])
  ELSE ArgsError("Unknown option")

\* parseArgs(argc, argv): thrown = "" and the options, or what was thrown
\* ("exit": printUsage and std::exit(0)).
parseArgs(a) == ArgLoop(a, 1, DefaultOptions)


----------------------------------------------------------------------------
(***************************************************************************)
(* Spec: a run of main().                                                  *)
(*                                                                         *)
(* The environment: a command line, a stdin stream of stdinLen bytes, the   *)
(* wall clock, whether socket() succeeds, what each sendto does.           *)
(* std::cin.read(p, n) extracts n bytes, or fewer when the stream ends     *)
(* first, and then leaves the stream not good(): a read shorter than       *)
(* chunkBytes is the last one of the run.                                  *)
(***************************************************************************)
Min(a, b) == IF a <= b THEN a ELSE b

\* The byte at position p (0-based) of stdin.  The sample number is written
\* into the first two bytes of every sample, so that all samples differ.
StdinByte(p) ==
  LET k == p \div kBytesPerIQ
      j == p % kBytesPerIQ
  IN IF j = 0 THEN k % 256
     ELSE IF j = 1 THEN (k \div 256) % 256
     ELSE 16 * j + 1

\* The stdin lengths: around every multiple of the bytes of one output sample.
StdinLens ==
  {n \in {j * kBytesPerIQ * kTotalDecimation + d :
            j \in 0..MaxOutputSamples, d \in {-3, 0, kBytesPerIQ}} : n >= 0}

\* The command lines: every one of at most two tokens (but for those that hand
\* "-1" to stoul), and longer ones that run the pipeline with small frames and
\* chunks: 2 or 3 samples a frame; reads of 1, 7, 200, 450 samples; the mixer
\* on and off; one and two sockets; an output rate that is not a whole number
\* of Hz; a shift larger than the sample rate.
ShortArgvs ==
  {<<>>} \cup {<<a>> : a \in Tokens} \cup
  {<<a, b>> : a \in Tokens, b \in Tokens \ {"-1"}} \cup
  {<<a, "-1">> : a \in Tokens \ {"--frame", "--chunk", "--ports"}}

RunArgvs ==
  {<<"--input-rate", "400", "--shift-khz", "0.1", "--frame", f, "--chunk", c>> :
     f \in {"2", "3"}, c \in {"1", "7", "200", "450"}} \cup
  {<<"--frame", "2", "--chunk", "200", "--shift-khz", "0">>,
   <<"--frame", "3", "--chunk", "7", "--input-rate", "300", "--ports", "80">>,
   <<"--frame", "2", "--chunk", "450", "--shift-khz", "1", "--input-rate", "400">>}

\* The clock readings a run may anchor to: early enough that no header of the
\* run passes the last second a uint32_t holds.
FramingClock ==
  {tv \in WallClock : tv.sec \in {0, 1} /\ tv.nsec = NsPerSec - 1}

NoRead == [gcount |-> 0, carryIn |-> 0, converted |-> 0, head |-> <<>>,
           frames |-> 0, faults |-> 0, reads |-> 0]

IdleMainObjects ==
  /\ opts = DefaultOptions
  /\ stage1 = FirDecimator(Stage1Factor, StageTaps)
  /\ stage2 = FirDecimator(Stage2Factor, StageTaps)
  /\ stage3 = FirDecimator(Stage3Factor, StageTaps)
  /\ timestampEncoder = TimestampEncoder([num |-> 1, den |-> 1])
  /\ streamer = NoStreamer
  /\ frequencyShifter = FrequencyShifter(0, 0)
  /\ carry = <<>>
  /\ buffer = <<>>
  /\ samplesSent = 0
  /\ inputSamplesProcessed = 0
  /\ outputSamplesProduced = 0
  /\ framesSent = 0
  /\ stdinBytesRead = 0
  /\ sent = <<>>
  /\ wire = <<>>
  /\ decimated = <<>>
  /\ sendFaults = 0
  /\ lastRead = NoRead

IdleMain ==
  /\ pc = "exit"
  /\ argv = <<>>
  /\ stdinLen = 0
  /\ cinGood = TRUE
  /\ exitCode = 0
  /\ usagePrinted = FALSE
  /\ failure = ""
  /\ IdleMainObjects

Init ==
  /\ IdleFir
  /\ IdleTs
  /\ pc = "start"
  /\ argv \in ShortArgvs \cup RunArgvs
  /\ stdinLen \in StdinLens
  /\ cinGood = TRUE
  /\ exitCode = -1
  /\ usagePrinted = FALSE
  /\ failure = ""
  /\ IdleMainObjects

\* main returns (or std::exit is called).
Exits(code, usage, what) ==
  /\ pc' = "exit"
  /\ exitCode' = code
  /\ usagePrinted' = usage
  /\ failure' = what

\* Which handler of main's try block takes an exception, and what it returns:
\* ArgsError prints the usage and returns 64, any other std::exception returns 1.
CatchReturns(thrown) == IF thrown = "ArgsError" THEN ExitUsage ELSE 1

CatchPrintsUsage(thrown) == thrown = "ArgsError"

\* main(), from its first line to the top of the while loop.
Startup ==
  /\ pc = "start"
  /\ LET p == parseArgs(argv)
     IN IF p.thrown = "exit"
        THEN /\ Exits(0, TRUE, "")
             /\ UNCHANGED <<objVars, loopVars>>
        ELSE IF p.thrown # ""
        THEN /\ Exits(CatchReturns(p.thrown), CatchPrintsUsage(p.thrown), p.what)
             /\ UNCHANGED <<objVars, loopVars>>
        ELSE \E failAt \in 0..Len(p.opts.ports) :
          LET u == UdpStreamer(p.opts.ip, p.opts.ports, failAt)
          IN IF u.thrown # ""
             THEN /\ Exits(CatchReturns(u.thrown), CatchPrintsUsage(u.thrown), u.what)
                  /\ UNCHANGED <<objVars, loopVars>>
             ELSE /\ pc' = "loop"
                  /\ UNCHANGED <<exitCode, usagePrinted, failure>>
                  /\ opts' = p.opts
                  /\ stage1' = FirDecimator(Stage1Factor, StageTaps)
                  /\ stage2' = FirDecimator(Stage2Factor, StageTaps)
                  /\ stage3' = FirDecimator(Stage3Factor, StageTaps)
                  /\ timestampEncoder' =
                       TimestampEncoder([num |-> p.opts.inputRate,
                                         den |-> kTotalDecimation * 10])
                  /\ streamer' = u.streamer
                  /\ frequencyShifter' =
                       FrequencyShifter(p.opts.inputRate, p.opts.shiftKhz * 1000)
                  /\ carry' = <<>>
                  /\ buffer' = <<>>
                  /\ samplesSent' = 0
                  /\ inputSamplesProcessed' = 0
                  /\ outputSamplesProduced' = 0
                  /\ framesSent' = 0
                  /\ stdinBytesRead' = 0
  /\ UNCHANGED <<argv, stdinLen, cinGood, histVars, firVars, tsVars>>

\* frequencyShifter.mix, then stage1, stage2, stage3.process.
RunStages(sh, s1, s2, s3, stageInput) ==
  LET m == mix(sh, stageInput)
      afterStage1 == process(s1, m.samples)
      afterStage2 == process(s2, afterStage1.out)
      afterStage3 == process(s3, afterStage2.out)
  IN [shifter |-> m.shifter, stage1 |-> afterStage1.dec, stage2 |-> afterStage2.dec,
      stage3 |-> afterStage3.dec, decimated |-> afterStage3.out]

\* (mutation of PayloadOf: one sample fewer than payloadSamples)
PayloadOfShort(buf, payloadSamples) == SubSeq(buf, 1, payloadSamples - 1)

\* frame.insert(frame.end(), buffer.begin(), buffer.begin() + payloadSamples)
PayloadOf(buf, payloadSamples) == SubSeq(buf, 1, payloadSamples)

\* (mutation of NextSamplesSent: the counter advanced by the whole frame)
NextSamplesSentByFrame(n, payloadSamples) == n + payloadSamples + 1

\* samplesSent += payloadSamples
NextSamplesSent(n, payloadSamples) == n + payloadSamples

\* (mutation of FramingContinues: a frame is cut only from a buffer that holds
\* more than one payload)
FramingContinuesLate(buf, payloadSamples) == Len(buf) > payloadSamples

\* while (buffer.size() >= payloadSamples)
FramingContinues(buf, payloadSamples) == Len(buf) >= payloadSamples

\* One pass of the body of the framing loop.  m holds main's objects and
\* locals; outcome[c] is what the c-th sendto call of this iteration does, c
\* counting from `calls` + 1.
FrameOnce(m, payloadSamples, tv, outcome, calls) ==
  LET h == headerForSample(m.timestampEncoder, m.samplesSent, tv)
      frame == <<h.header>> \o PayloadOf(m.buffer, payloadSamples)
      n == Len(m.streamer.sockets)
      s == send(m.streamer, frame, [i \in 1..n |-> outcome[calls + i]])
  IN [m EXCEPT
        !.timestampEncoder = h.enc,
        !.streamer = s.streamer,
        !.framesSent = m.framesSent + 1,
        !.buffer = SubSeq(m.buffer, payloadSamples + 1, Len(m.buffer)),
        !.samplesSent = NextSamplesSent(m.samplesSent, payloadSamples),
        !.sent = Append(m.sent, [index |-> m.samplesSent, frame |-> frame]),
        !.sendFaults = m.sendFaults
           + Cardinality({i \in 1..n : outcome[calls + i] # "sent"}),
        !.wire = m.wire \o [i \in 1..Len(s.calls) |->
                              <<m.framesSent + 1, s.calls[i]>>]]

RECURSIVE FrameLoop(_, _, _, _, _)
\* (mutation of FrameLoop: an `if` in place of the `while`, one datagram at
\* most per iteration of the top-level loop)
FrameLoopOnce(m, payloadSamples, tv, outcome, calls) ==
  IF ~FramingContinues(m.buffer, payloadSamples) THEN m
  ELSE FrameOnce(m, payloadSamples, tv, outcome, calls)

\* The framing loop: while (buffer.size() >= payloadSamples) { ... }
FrameLoop(m, payloadSamples, tv, outcome, calls) ==
  IF ~FramingContinues(m.buffer, payloadSamples) THEN m
  ELSE FrameLoop(FrameOnce(m, payloadSamples, tv, outcome, calls),
                 payloadSamples, tv, outcome, calls + Len(m.streamer.sockets))

\* What the sendto calls of one iteration may do: at most `budget` of the n
\* calls fail or fall short.
SendPlans(n, budget) ==
  UNION {{[c \in 1..n |-> IF c \in S THEN kind[c] ELSE "sent"] :
            kind \in [S -> {"failed", "short"}]} :
         S \in {T \in SUBSET (1..n) : Cardinality(T) <= budget}}

\* (mutation of Refill: what the buffer held is dropped)
RefillFresh(buf, out) == out

\* buffer.insert(buffer.end(), decimated.begin(), decimated.end())
Refill(buf, out) == buf \o out

\* (mutation of CarriedOver: the bytes after the aligned prefix dropped)
CarriedOverNone(all, usableBytes) == <<>>

\* carry.assign(all.begin() + usableBytes, all.end())
CarriedOver(all, usableBytes) == SubSeq(all, usableBytes + 1, Len(all))

\* main's objects and locals, and the history, as one record.
Locals ==
  [pc |-> pc, exitCode |-> exitCode, failure |-> failure, cinGood |-> cinGood,
   stage1 |-> stage1, stage2 |-> stage2, stage3 |-> stage3,
   timestampEncoder |-> timestampEncoder, streamer |-> streamer,
   frequencyShifter |-> frequencyShifter,
   carry |-> carry, buffer |-> buffer, samplesSent |-> samplesSent,
   inputSamplesProcessed |-> inputSamplesProcessed,
   outputSamplesProduced |-> outputSamplesProduced,
   framesSent |-> framesSent, stdinBytesRead |-> stdinBytesRead,
   sent |-> sent, wire |-> wire, decimated |-> decimated,
   sendFaults |-> sendFaults, lastRead |-> lastRead]

\* One pass of the body of while (std::cin.good()): what it leaves behind, for
\* everything the clock and the sendto calls may do.
\* (mutation of UsableBytes: everything read handed to the decoder)
UsableBytesAll(n) == n

\* usableBytes = (all.size() / kBytesPerIQ) * kBytesPerIQ
UsableBytes(n) == (n \div kBytesPerIQ) * kBytesPerIQ

\* (mutation of BreaksOn: the loop left on a read that came back short, its
\* bytes unprocessed)
BreaksOnShort(bytesRead, chunkBytes) == bytesRead < chunkBytes

\* if (bytesRead <= 0) break;
BreaksOn(bytesRead, chunkBytes) == bytesRead <= 0

LoopBody ==
  LET chunkBytes == opts.chunkSamples * kBytesPerIQ
      bytesRead == Min(chunkBytes, stdinLen - stdinBytesRead)
      chunk == [i \in 1..bytesRead |-> StdinByte(stdinBytesRead + i - 1)]
      all == carry \o chunk
      usableBytes == UsableBytes(Len(all))
      toConvert == SubSeq(all, 1, usableBytes)
      conv == convertToComplex(toConvert)
      payloadSamples == opts.packetSamples - 1
      thisRead == [gcount |-> bytesRead, carryIn |-> Len(carry),
                   converted |-> Len(toConvert),
                   head |-> SubSeq(toConvert, 1, Min(kBytesPerIQ, Len(toConvert))),
                   frames |-> 0,
                   faults |-> 0,
                   reads |-> lastRead.reads + 1]
      afterRead == [Locals EXCEPT !.cinGood = (bytesRead = chunkBytes),
                                  !.stdinBytesRead = stdinBytesRead + bytesRead,
                                  !.carry = CarriedOver(all, usableBytes),
                                  !.lastRead = thisRead]
  IN IF BreaksOn(bytesRead, chunkBytes)
     THEN \* break
          {[Locals EXCEPT !.cinGood = (bytesRead = chunkBytes),
                          !.pc = "exit", !.exitCode = 0,
                          !.lastRead = [thisRead EXCEPT !.gcount = 0]]}
     ELSE IF Len(toConvert) = 0
     THEN \* continue
          {afterRead}
     ELSE IF ~conv.ok
     THEN \* convertToComplex throws
          {[afterRead EXCEPT !.pc = "exit", !.exitCode = CatchReturns("runtime_error"),
                             !.failure = conv.what]}
     ELSE LET g == RunStages(frequencyShifter, stage1, stage2, stage3, conv.samples)
              filled == Refill(buffer, g.decimated)
              nFrames == IF FramingContinues(filled, payloadSamples)
                         THEN Len(filled) \div payloadSamples ELSE 0
              nCalls == nFrames * Len(streamer.sockets)
              staged == [afterRead EXCEPT
                           !.inputSamplesProcessed =
                              inputSamplesProcessed + Len(conv.samples),
                           !.frequencyShifter = g.shifter,
                           !.stage1 = g.stage1,
                           !.stage2 = g.stage2,
                           !.stage3 = g.stage3,
                           !.outputSamplesProduced =
                              outputSamplesProduced + Len(g.decimated),
                           !.decimated = decimated \o g.decimated,
                           !.buffer = filled]
          IN {LET m == FrameLoop(staged, payloadSamples, tv, outcome, 0)
              IN [m EXCEPT !.lastRead.frames = m.framesSent - framesSent,
                           !.lastRead.faults = m.sendFaults - sendFaults] :
                tv \in (IF timestampEncoder.anchored \/ nFrames = 0
                        THEN {[sec |-> 0, nsec |-> 0]} ELSE FramingClock),
                outcome \in SendPlans(nCalls, MaxSendFaults - streamer.sendErrors)}

Iterate ==
  /\ pc = "loop"
  /\ cinGood
  /\ \E m \in LoopBody :
       /\ pc' = m.pc
       /\ exitCode' = m.exitCode
       /\ failure' = m.failure
       /\ cinGood' = m.cinGood
       /\ stage1' = m.stage1
       /\ stage2' = m.stage2
       /\ stage3' = m.stage3
       /\ timestampEncoder' = m.timestampEncoder
       /\ streamer' = m.streamer
       /\ frequencyShifter' = m.frequencyShifter
       /\ carry' = m.carry
       /\ buffer' = m.buffer
       /\ samplesSent' = m.samplesSent
       /\ inputSamplesProcessed' = m.inputSamplesProcessed
       /\ outputSamplesProduced' = m.outputSamplesProduced
       /\ framesSent' = m.framesSent
       /\ stdinBytesRead' = m.stdinBytesRead
       /\ sent' = m.sent
       /\ wire' = m.wire
       /\ decimated' = m.decimated
       /\ sendFaults' = m.sendFaults
       /\ lastRead' = m.lastRead
  /\ UNCHANGED <<argv, stdinLen, usagePrinted, opts, firVars, tsVars>>

\* The while condition fails: main returns 0.
LoopEnds ==
  /\ pc = "loop"
  /\ ~cinGood
  /\ Exits(0, usagePrinted, "")
  /\ UNCHANGED <<argv, stdinLen, cinGood, objVars, loopVars, histVars, firVars, tsVars>>

Next == Startup \/ Iterate \/ LoopEnds

Spec == Init /\ [][Next]_vars

\* The command line asks for reads of a single sample.
ReadsOneSample(a) ==
  \E i \in 1..(Len(a) - 1) : a[i] = "--chunk" /\ a[i + 1] = "1"

\* The runs of SpecLive: those of Init, less the ones that
\* read stdin one sample at a time (they differ from the runs with chunks of a few
\* samples only in the number of iterations).
InitLive == Init /\ ~ReadsOneSample(argv)

\* Iterate can be taken exactly when the while condition holds: the loop body
\* always has an outcome (LoopBody is never empty).
IterateEnabled == pc = "loop" /\ cinGood

\* An Iterate step: no other action can be taken while the while condition
\* holds, and every outcome of the loop body counts one more read.
IterateTaken == IterateEnabled /\ lastRead'.reads = lastRead.reads + 1

\* The run of the process: main is sequential code that keeps executing, and
\* std::cin.read on a finite stream returns (with the bytes asked for, or short
\* at end of input), so a step that can be taken is taken.  The last conjunct
\* is WF_vars(Iterate), with ENABLED <<Iterate>>_vars written out as
\* IterateEnabled and <<Iterate>>_vars as <<IterateTaken>>_vars.
SpecLive ==
  /\ InitLive /\ [][Next]_vars
  /\ WF_vars(Startup)
  /\ WF_vars(LoopEnds)
  /\ ([]<>~IterateEnabled \/ []<><<IterateTaken>>_vars)

----------------------------------------------------------------------------
(***************************************************************************)
(* Properties of Spec.                                                     *)
(***************************************************************************)
PayloadSamples == opts.packetSamples - 1

\* The run has left the loop (main returns 0 after the while loop).
LoopLeft == pc = "exit" /\ exitCode = 0 /\ ~usagePrinted

\* The datagrams of a run with the same options and the same clock reading
\* that is handed the whole of stdin by a single read.
OneReadDatagrams ==
  LET whole == [i \in 1..((stdinLen \div kBytesPerIQ) * kBytesPerIQ) |->
                  StdinByte(i - 1)]
      conv == convertToComplex(whole)
      g == RunStages(FrequencyShifter(opts.inputRate, opts.shiftKhz * 1000),
                     FirDecimator(Stage1Factor, StageTaps),
                     FirDecimator(Stage2Factor, StageTaps),
                     FirDecimator(Stage3Factor, StageTaps),
                     conv.samples)
      nCalls == (Len(g.decimated) \div PayloadSamples) * Len(streamer.sockets)
      start == [timestampEncoder |-> reset(timestampEncoder),
                streamer |-> [streamer EXCEPT !.packetsSent = 0, !.sendErrors = 0],
                framesSent |-> 0,
                buffer |-> g.decimated,
                samplesSent |-> 0,
                sent |-> <<>>,
                wire |-> <<>>,
                sendFaults |-> 0]
  IN FrameLoop(start, PayloadSamples,
               [sec |-> timestampEncoder.baseSec, nsec |-> timestampEncoder.baseNsec],
               [c \in 1..nCalls |-> "sent"], 0).sent

\* C1: however stdin reached the loop (whatever the chunk size, whether or not
\* the last read was partial or ended inside a sample), the datagrams the run
\* has emitted when it leaves the loop -- the sample index of each header, the
\* header and the payload samples, in order -- are those of the run that gets
\* the whole input in one read, the clock reading being the same.
C1_Continuity == LoopLeft => sent = OneReadDatagrams

\* C1 (witness): a run of at least three reads, the last ending inside a sample,
\* has left the loop with at least two datagrams emitted.
C1_Witness ==
  /\ LoopLeft
  /\ lastRead.reads >= 3
  /\ Len(carry) > 0
  /\ Len(sent) >= 2
  /\ sent = OneReadDatagrams

\* C2: every datagram handed to send holds exactly packetSamples samples: the
\* header computed for the index, in the decimated stream, of its first payload
\* sample, then the payloadSamples consecutive decimated samples from that index
\* on, which were the front of the buffer (what the buffer holds afterwards is
\* the decimated stream from samplesSent on).
C2_DatagramShape ==
  /\ \A k \in 1..Len(sent) :
       /\ Len(sent[k].frame) = opts.packetSamples
       /\ sent[k].frame[1] = HeaderFields(timestampEncoder, sent[k].index)
       /\ sent[k].index + PayloadSamples <= Len(decimated)
       /\ SubSeq(sent[k].frame, 2, Len(sent[k].frame))
            = SubSeq(decimated, sent[k].index + 1, sent[k].index + PayloadSamples)
  /\ buffer = SubSeq(decimated, samplesSent + 1, Len(decimated))

\* C2 (witness): one iteration framed two datagrams of three samples each.
C2_Witness ==
  /\ opts.packetSamples = 3
  /\ lastRead.frames = 2
  /\ Len(sent) = 2
  /\ Len(sent[2].frame) = 3
  /\ sent[2].frame[1] = HeaderFields(timestampEncoder, 2)

\* C3: datagrams go out in order: the k-th header was asked for index
\* (k - 1) * payloadSamples (0 for the first, payloadSamples more for each
\* next), the payloads put end to end are a prefix of the decimated stream, and
\* sendto is called for the datagrams in the order they were framed.
C3_Fifo ==
  /\ \A k \in 1..Len(sent) :
       /\ sent[k].index = (k - 1) * PayloadSamples
       /\ k * PayloadSamples <= Len(decimated)
       /\ \A j \in 1..PayloadSamples :
            sent[k].frame[j + 1] = decimated[(k - 1) * PayloadSamples + j]
  /\ \A i \in 1..Len(wire) : \A j \in i..Len(wire) : wire[i][1] <= wire[j][1]

\* C3 (witness): three datagrams emitted over at least two reads; the third
\* header was asked for index 2 * payloadSamples and its payload starts with
\* the third decimated sample (frames of one payload sample).
C3_Witness ==
  /\ Len(sent) >= 3
  /\ lastRead.reads >= 2
  /\ sent[3].index = 2 * PayloadSamples
  /\ sent[3].frame[2] = decimated[3]

\* C4: once the loop is entered, after every iteration the number of datagrams
\* emitted is floor(outputs of stage 3 so far / payloadSamples).
C4_DatagramCount ==
  pc \in {"loop", "exit"} =>
    /\ outputSamplesProduced = Len(decimated)
    /\ framesSent = Len(sent)
    /\ framesSent = outputSamplesProduced \div PayloadSamples

\* C4 (witness): an iteration produced three outputs, framed the one complete
\* payload of two and left the third sample in the buffer.
C4_Witness ==
  /\ pc = "loop"
  /\ PayloadSamples = 2
  /\ outputSamplesProduced = 3
  /\ lastRead.frames = 1
  /\ framesSent = 1
  /\ Len(buffer) = 1

\* C5: after every iteration, kBytesPerIQ * inputSamplesProcessed + |carry| is
\* the number of bytes read, and samplesSent + |buffer| is
\* floor(inputSamplesProcessed / 200).
C5_Accounting ==
  pc \in {"loop", "exit"} =>
    /\ kBytesPerIQ * inputSamplesProcessed + Len(carry) = stdinBytesRead
    /\ samplesSent + Len(buffer) = inputSamplesProcessed \div 200

\* C5 (witness): after several reads, the last of them partial and ending
\* inside a sample, with datagrams sent and samples still buffered.
C5_Witness ==
  /\ lastRead.reads >= 2
  /\ Len(carry) > 0
  /\ samplesSent > 0
  /\ Len(buffer) > 0
  /\ inputSamplesProcessed % 200 # 0

\* The command lines of one flag and one value that carry a configuration error.
UnknownFlag == Len(argv) >= 1 /\ argv[1] = "--bogus"

NonPositiveRate == argv \in {<<"--input-rate", "0">>, <<"--input-rate", "-1">>}

EmptyPortList == argv \in {<<"--ports", "">>, <<"--ports", ",">>}

MalformedIp == argv \in {<<"--ip", "localhost">>, <<"--ip", "abc">>, <<"--ip", "">>}

\* C10: a run whose command line has an unknown flag, a non-positive input
\* rate, an empty port list or a malformed IPv4 address prints the usage and
\* exits with code 64, and has read no input and sent no datagram.
C10_ConfigErrorsExit64 ==
  (pc = "exit" /\ (UnknownFlag \/ NonPositiveRate \/ EmptyPortList \/ MalformedIp)) =>
    /\ exitCode = ExitUsage
    /\ usagePrinted
    /\ stdinBytesRead = 0
    /\ sent = <<>>

\* C10 (witness): the run with a malformed IPv4 address has ended on the
\* std::runtime_error of the UdpStreamer constructor: exit code 1, no usage.
C10_Witness ==
  /\ pc = "exit"
  /\ MalformedIp
  /\ failure = "Invalid IPv4 address"
  /\ exitCode = 1
  /\ ~usagePrinted

\* The input has reached EOF inside a sample: the run has ended after at least
\* one read, every byte of stdin was read, and their number is not a multiple
\* of kBytesPerIQ (the carry holds the partial sample).
EofInsideSample ==
  /\ pc = "exit"
  /\ lastRead.reads > 0
  /\ stdinBytesRead = stdinLen
  /\ stdinBytesRead % kBytesPerIQ # 0

\* C11: a run whose input reaches EOF while the carry holds a partial sample
\* ends as a fatal input error, with exit code 1.
C11_PartialSampleAtEofIsFatal == EofInsideSample => exitCode = 1

\* C11 (witness): the input has ended inside a sample, the carry holds the
\* partial sample, and main has returned 0 with no error reported.
C11_Witness ==
  /\ EofInsideSample
  /\ Len(carry) > 0
  /\ exitCode = 0
  /\ failure = ""

\* What holds when main has returned 0 after the loop: every byte of stdin was
\* read, every whole sample of it went through the decoder and the stages, and
\* what the buffer holds is the tail of the decimated stream that no datagram
\* carried, less than one payload.
AllInputProcessed ==
  /\ stdinBytesRead = stdinLen
  /\ inputSamplesProcessed = stdinLen \div kBytesPerIQ
  /\ outputSamplesProduced = Len(decimated)
  /\ Len(buffer) < PayloadSamples
  /\ samplesSent + Len(buffer) = Len(decimated)
  /\ buffer = SubSeq(decimated, samplesSent + 1, Len(decimated))
  /\ Len(sent) = Len(decimated) \div PayloadSamples

\* C13: once the loop is entered the run ends, main returning 0; at that point
\* all of stdin has been read and processed (the bytes of a last short read
\* included) and the buffer holds fewer than payloadSamples samples, which were
\* never sent: at no time has a datagram been sent that carries other than
\* payloadSamples payload samples.
C13_TerminatesDiscardingRemainder ==
  /\ (pc = "loop") ~> LoopLeft
  /\ [](LoopLeft => AllInputProcessed)
  /\ [](\A k \in 1..Len(sent) : Len(sent[k].frame) = PayloadSamples + 1)

\* C13 (witness): the run has returned 0 after a last read that came back
\* short but not empty; datagrams were sent, and a sample is left in the buffer.
C13_Witness ==
  /\ LoopLeft
  /\ lastRead.gcount > 0
  /\ lastRead.gcount < opts.chunkSamples * kBytesPerIQ
  /\ lastRead.reads >= 2
  /\ Len(sent) >= 1
  /\ Len(buffer) > 0
  /\ Len(buffer) < PayloadSamples
  /\ AllInputProcessed

\* C15: between iterations of the top-level loop (and when it is left) the
\* buffer holds at most 2 * payloadSamples samples, however many samples the
\* iteration added to it.
C15_BufferBounded ==
  pc \in {"loop", "exit"} => Len(buffer) <= 2 * PayloadSamples

\* C15 (witness): an iteration added more than 2 * payloadSamples samples to
\* the buffer at once (it framed three datagrams or more, and the buffer held
\* less than one payload before), and the buffer is within the bound after it.
C15_Witness ==
  /\ pc \in {"loop", "exit"}
  /\ lastRead.frames >= 3
  /\ lastRead.frames * PayloadSamples + Len(buffer) > 2 * PayloadSamples
  /\ Len(buffer) <= 2 * PayloadSamples

\* The n bytes of stdin from byte offset `from` (0-based) on.
StdinBytes(from, n) == [i \in 1..n |-> StdinByte(from + i - 1)]

\* C16: what an iteration hands to convertToComplex is the carry followed by
\* the bytes just read, cut to the largest multiple of kBytesPerIQ, and what
\* it leaves in carry is the rest: the bytes of stdin read so far that follow
\* the last whole sample, fewer than kBytesPerIQ of them.  The run never ends
\* on convertToComplex's "Unaligned IQ byte stream".
C16_CarrySplit ==
  pc \in {"loop", "exit"} =>
    /\ Len(carry) < kBytesPerIQ
    /\ failure # "Unaligned IQ byte stream"
    /\ lastRead.converted
         = ((lastRead.carryIn + lastRead.gcount) \div kBytesPerIQ) * kBytesPerIQ
    /\ lastRead.converted + Len(carry) = lastRead.carryIn + lastRead.gcount
    /\ lastRead.head
         = StdinBytes(stdinBytesRead - lastRead.gcount - lastRead.carryIn,
                      Min(kBytesPerIQ, lastRead.converted))
    /\ carry = StdinBytes(stdinBytesRead - Len(carry), Len(carry))
    /\ inputSamplesProcessed * kBytesPerIQ + Len(carry) = stdinBytesRead

\* C16 (witness): after at least one full read, a read ended inside a sample;
\* the whole samples before it went to the decoder and its bytes are in carry.
C16_Witness ==
  /\ pc \in {"loop", "exit"}
  /\ lastRead.reads >= 2
  /\ lastRead.gcount % kBytesPerIQ # 0
  /\ lastRead.converted >= kBytesPerIQ
  /\ lastRead.converted < lastRead.gcount
  /\ Len(carry) = lastRead.gcount % kBytesPerIQ
  /\ failure = ""

\* C17: the mixer's phase is 0 until the first sample is mixed, and at the end
\* of every mix() call (so after a per-sample update) it lies in (-pi, pi],
\* whatever sample rate and shift the command line configured.
C17_PhaseFolded ==
  pc \in {"loop", "exit"} /\ lastRead.reads > 0 =>
    /\ inputSamplesProcessed = 0 => frequencyShifter.phase = 0
    /\ frequencyShifter.phase > -frequencyShifter.kPi
    /\ frequencyShifter.phase <= frequencyShifter.kPi

\* C17 (witness): with a shift larger than the sample rate, the phase is
\* above pi after samples were mixed.
C17_Witness ==
  /\ pc \in {"loop", "exit"}
  /\ inputSamplesProcessed > 0
  /\ frequencyShifter.step > frequencyShifter.kTwoPi
  /\ frequencyShifter.phase > frequencyShifter.kPi

\* In a run, main's encoder is unanchored until the first datagram is framed
\* (startup does not anchor it) and its anchor stays as it is from then on:
\* the loop calls headerForSample only, never reset().
RunAnchorsWithFirstDatagram ==
  /\ [](timestampEncoder.anchored = (framesSent > 0))
  /\ [][timestampEncoder.anchored =>
          /\ timestampEncoder'.anchored
          /\ timestampEncoder'.baseSec = timestampEncoder.baseSec
          /\ timestampEncoder'.baseNsec = timestampEncoder.baseNsec]_vars

\* The endpoints the run is configured with, in order.
Endpoints == SelectSeq(opts.ports, LAMBDA p : p # 0)

\* C12: every framed datagram is handed to sendto once per configured endpoint,
\* in endpoint order; every sendto that fails or falls short is counted, none
\* of them keeps the remaining endpoints from being sent to, ends the run or
\* keeps later datagrams from being framed and sent: samplesSent is
\* payloadSamples times the datagrams framed, which are all the complete
\* payloads decimated so far, and a run that met faults still returns 0.
C12_FanOut ==
  pc \in {"loop", "exit"} =>
    /\ Len(wire) = framesSent * Len(Endpoints)
    /\ \A c \in 1..Len(wire) :
         wire[c] = <<((c - 1) \div Len(Endpoints)) + 1,
                     Endpoints[((c - 1) % Len(Endpoints)) + 1]>>
    /\ streamer.sendErrors = sendFaults
    /\ streamer.packetsSent = framesSent
    /\ samplesSent = framesSent * PayloadSamples
    /\ framesSent = Len(decimated) \div PayloadSamples
    /\ (pc = "exit" /\ sendFaults > 0) => exitCode = 0

\* C12 (witness): with two endpoints, a sendto of an earlier iteration failed
\* or fell short, and the last iteration framed a datagram and sent it to both
\* endpoints without a fault.
C12_Witness ==
  /\ pc \in {"loop", "exit"}
  /\ Len(Endpoints) = 2
  /\ sendFaults >= 1
  /\ lastRead.frames >= 1
  /\ lastRead.faults = 0
  /\ framesSent >= 2
  /\ wire[Len(wire)] = <<framesSent, Endpoints[2]>>



----------------------------------------------------------------------------
(***************************************************************************)
(* SpecFir: one FirDecimator, fed a stream in calls of arbitrary sizes.    *)
(* The stream's i-th sample is <<i>>: all samples differ, so any sample    *)
(* that is lost, repeated or moved shows in the outputs.                   *)
(***************************************************************************)
FirSample(i) == <<i>>
FirStream(from, to) == [i \in 1..(to - from + 1) |-> FirSample(from + i - 1)]

InitFir ==
  /\ IdleMain
  /\ IdleTs
  /\ \E f \in -1..MaxFirFactor, t \in 0..MaxFirTaps :
       /\ decConfig = [factor |-> f, taps |-> t]
       /\ decimator = FirDecimator(f, t)
  /\ decFed = 0
  /\ decOutput = <<>>
  /\ decCall = NoDecCall

CallProcess(n) ==
  /\ decFed + n <= MaxFirInput
  /\ LET r == process(decimator, FirStream(decFed + 1, decFed + n))
     IN /\ decimator' = r.dec
        /\ decOutput' = decOutput \o r.out
        /\ decCall' = [made |-> TRUE, priorPhase |-> decimator.phase,
                       n |-> n, count |-> Len(r.out)]
  /\ decFed' = decFed + n
  /\ UNCHANGED <<decConfig, tsVars, mainVars>>

NextFir == \E n \in 0..MaxFirInput : CallProcess(n)

SpecFir == InitFir /\ [][NextFir]_vars

CeilDiv(a, b) == (a + b - 1) \div b

\* C6 as stated: a process() call on N samples with phase counter priorPhase
\* returns ceil((N + priorPhase)/F) samples, so that a fresh decimator emits
\* its first output on its first input sample.
C6_CountIsCeil ==
  (decCall.made /\ decimator.factor > 0) =>
    decCall.count = CeilDiv(decCall.n + decCall.priorPhase, decimator.factor)

\* C6 amended: a process() call on N samples with phase counter priorPhase
\* returns floor((N + priorPhase)/F) samples; from the initial state the
\* outputs so far number floor(fed/F), the first one being emitted on the
\* F-th input sample.
C6_CountIsFloor ==
  decimator.factor > 0 =>
    /\ decCall.made =>
         decCall.count = (decCall.n + decCall.priorPhase) \div decimator.factor
    /\ Len(decOutput) = decFed \div decimator.factor
    /\ (Len(decOutput) = 0) = (decFed < decimator.factor)

\* C6 (witness): a call that starts in mid-phase and ends in mid-phase, where
\* floor and ceil differ, and that returned something.
C6_Witness ==
  /\ decCall.made
  /\ decimator.factor >= 2
  /\ decCall.priorPhase > 0
  /\ decCall.count >= 1
  /\ (decCall.n + decCall.priorPhase) % decimator.factor # 0

\* C7: however the stream is cut into process() calls, the concatenated
\* outputs and the decimator's final state (circular buffer, write index,
\* phase) are those of one process() call on the whole stream by a freshly
\* constructed decimator.
C7_ChunkInvariance ==
  LET whole == process(FirDecimator(decConfig.factor, decConfig.taps),
                       FirStream(1, decFed))
  IN /\ decOutput = whole.out
     /\ decimator = whole.dec

\* C7 (witness): at least two non-empty calls, the last one entered in
\* mid-phase, after the circular buffer has wrapped, with two or more outputs
\* so far.
C7_Witness ==
  /\ decCall.made
  /\ decCall.n > 0
  /\ decCall.n < decFed
  /\ decCall.priorPhase # 0
  /\ Len(decOutput) >= 2
  /\ decFed > Len(decimator.state)

\* The decimator as it was constructed.
AsConstructed == FirDecimator(decConfig.factor, decConfig.taps)

\* C14 as stated: a decimator constructed with F <= 0 or with T = 0 requested
\* taps returns nothing from process() and keeps the state it was
\* constructed with.
C14_EmptyForBadFactorOrNoTaps ==
  (decConfig.factor <= 0 \/ decConfig.taps = 0) =>
    /\ decOutput = <<>>
    /\ decCall.made => decCall.count = 0
    /\ decimator = AsConstructed

\* C14 amended: a decimator constructed with F <= 0 returns nothing from
\* process() whatever the input, and its state (circular buffer, write index,
\* phase) stays as constructed.  A request for T = 0 taps is not a failure: the
\* constructor designs 3 taps (as for any T < 3), and with F > 0 the decimator
\* works as one asked for 3 taps, returning floor((N + priorPhase)/F) samples.
C14_EmptyForBadFactorOnly ==
  /\ decConfig.factor <= 0 =>
       /\ decOutput = <<>>
       /\ decCall.made => decCall.count = 0
       /\ decimator = AsConstructed
  /\ decConfig.taps = 0 =>
       /\ Len(decimator.taps) = 3
       /\ Len(decimator.state) = 3
       /\ decConfig.factor > 0 =>
            /\ decCall.made =>
                 decCall.count = (decCall.n + decCall.priorPhase) \div decConfig.factor
            /\ decOutput = process(FirDecimator(decConfig.factor, 3),
                                   FirStream(1, decFed)).out
            /\ decimator = process(FirDecimator(decConfig.factor, 3),
                                   FirStream(1, decFed)).dec

\* C14 (witness): a decimator asked for 0 taps, with factor 2, has returned
\* samples, and its state is no longer the constructed one.
C14_Witness ==
  /\ decConfig.taps = 0
  /\ decConfig.factor = 2
  /\ decCall.made
  /\ decCall.count >= 1
  /\ Len(decOutput) >= 2
  /\ decimator # AsConstructed

----------------------------------------------------------------------------
(***************************************************************************)
(* SpecTs: one TimestampEncoder of an integer rate, headerForSample called *)
(* on any 64-bit sample index, reset() at any time.                        *)
(***************************************************************************)
InitTs ==
  /\ IdleMain
  /\ IdleFir
  /\ \E hz \in 1..MaxRateHz : tsEncoder = TimestampEncoder([num |-> hz, den |-> 1])
  /\ tsCall = NoTsCall

CallHeaderForSample(n) ==
  /\ \E tv \in ClockReads(tsEncoder) :
       LET r == headerForSample(tsEncoder, n, tv)
       IN /\ tsEncoder' = r.enc
          /\ tsCall' = [made |-> TRUE, n |-> n,
                        baseSec |-> r.enc.baseSec, baseNsec |-> r.enc.baseNsec,
                        sec |-> r.header[1], nsec |-> r.header[2],
                        later |-> tsCall.made /\ tsEncoder.anchored /\ tsCall.n < n,
                        clock |-> tv]
  /\ UNCHANGED <<firVars, mainVars>>

CallReset ==
  /\ tsEncoder' = reset(tsEncoder)
  /\ tsCall' = NoTsCall
  /\ UNCHANGED <<firVars, mainVars>>

NextTs ==
  \/ \E n \in 0..(U64Mod - 1) : CallHeaderForSample(n)
  \/ CallReset

SpecTs == InitTs /\ [][NextTs]_vars

\* The instant a consumer decodes from the two uint32 fields, in nanoseconds.
DecodedInstant(sec, nsec) == sec * NsPerSec + nsec

\* The instant the header of sample n stands for, in nanoseconds.
TrueInstant(baseSec, baseNsec, rateHz, n) ==
  baseSec * NsPerSec + baseNsec + (n * NsPerSec) \div rateHz

\* The seconds count of that instant fits the 32-bit seconds field.
FitsSeconds(baseSec, baseNsec, rateHz, n) ==
  TrueInstant(baseSec, baseNsec, rateHz, n) \div NsPerSec < U32Mod

\* C8 as stated: for every 64-bit sample index and every anchor the two
\* fields decode to baseSec*10^9 + baseNsec + floor(n*10^9/rate), nsec < 10^9.
C8_ExactForEveryIndex ==
  tsCall.made =>
    /\ DecodedInstant(tsCall.sec, tsCall.nsec)
         = TrueInstant(tsCall.baseSec, tsCall.baseNsec, tsEncoder.sampleRateHz, tsCall.n)
    /\ tsCall.nsec >= 0 /\ tsCall.nsec < NsPerSec

\* C8 amended: the two fields are 32-bit values with 0 <= nsec < 10^9 for
\* every index and anchor, and they decode to baseSec*10^9 + baseNsec +
\* floor(n*10^9/rate) whenever that instant's seconds count is below 2^32.
C8_ExactWhenSecondsFit ==
  tsCall.made =>
    /\ tsCall.sec \in 0..(U32Mod - 1)
    /\ tsCall.nsec \in 0..(NsPerSec - 1)
    /\ FitsSeconds(tsCall.baseSec, tsCall.baseNsec, tsEncoder.sampleRateHz, tsCall.n) =>
         DecodedInstant(tsCall.sec, tsCall.nsec)
           = TrueInstant(tsCall.baseSec, tsCall.baseNsec, tsEncoder.sampleRateHz, tsCall.n)

\* C8 (witness): a call whose 128-bit product exceeds 64 bits, on an anchor
\* with non-zero fields, with whole seconds carried into the seconds field,
\* whose instant still fits.
C8_Witness ==
  /\ tsCall.made
  /\ tsCall.baseSec > 0 /\ tsCall.baseNsec > 0
  /\ tsCall.n * NsPerSec >= U64Mod
  /\ FitsSeconds(tsCall.baseSec, tsCall.baseNsec, tsEncoder.sampleRateHz, tsCall.n)
  /\ tsCall.sec > tsCall.baseSec

\* Two successive calls on the same anchor, the second on a larger index.
LaterCallSameAnchor ==
  /\ tsCall.made /\ tsCall'.made
  /\ tsEncoder.anchored /\ tsEncoder'.anchored
  /\ tsCall'.baseSec = tsCall.baseSec /\ tsCall'.baseNsec = tsCall.baseNsec
  /\ tsCall.n < tsCall'.n

\* C9 as stated: with a fixed anchor, for all sample indices a < b the
\* instant decoded from headerForSample(a) is at most that of headerForSample(b).
C9_MonotonicForEveryIndex ==
  [][LaterCallSameAnchor =>
       DecodedInstant(tsCall.sec, tsCall.nsec)
         <= DecodedInstant(tsCall'.sec, tsCall'.nsec)]_vars

\* C9 amended: with a fixed anchor, for all sample indices a < b such that
\* the seconds count of b's instant is below 2^32, the instant decoded from
\* headerForSample(a) is at most that decoded from headerForSample(b).
C9_MonotonicWhenSecondsFit ==
  [][(LaterCallSameAnchor
        /\ FitsSeconds(tsCall'.baseSec, tsCall'.baseNsec,
                       tsEncoder'.sampleRateHz, tsCall'.n)) =>
       DecodedInstant(tsCall.sec, tsCall.nsec)
         <= DecodedInstant(tsCall'.sec, tsCall'.nsec)]_vars

\* C9 (witness): a call on a larger index than the call before it, on the same
\* anchor; its instant fits and decodes to a later second than the anchor's.
C9_Witness ==
  /\ tsCall.made
  /\ tsCall.later
  /\ tsEncoder.anchored
  /\ tsCall.n >= 2
  /\ FitsSeconds(tsCall.baseSec, tsCall.baseNsec, tsEncoder.sampleRateHz, tsCall.n)
  /\ tsCall.sec > tsCall.baseSec
  /\ tsCall.baseSec > 0

\* A step of headerForSample, of reset: the harness records the call made, and
\* forgets it on reset.
HeaderCallStep == tsCall'.made /\ tsCall' # tsCall
ResetStep == tsCall.made /\ ~tsCall'.made

\* The anchor of the encoder.
Anchor(enc) == <<enc.baseSec, enc.baseNsec>>

\* C18: the encoder is anchored exactly when headerForSample has been called
\* since construction or since the last reset(); the call that finds it
\* unanchored reads the wall clock and makes the reading the anchor; a call
\* that finds it anchored leaves the anchor as it is; reset() clears the
\* anchor, and nothing else does.
C18_AnchoredOnce ==
  /\ [](tsEncoder.anchored = tsCall.made)
  /\ [][/\ (HeaderCallStep /\ ~tsEncoder.anchored) =>
             /\ tsEncoder'.anchored
             /\ Anchor(tsEncoder') = <<tsCall'.clock.sec, tsCall'.clock.nsec>>
        /\ (HeaderCallStep /\ tsEncoder.anchored) =>
             /\ tsEncoder'.anchored
             /\ Anchor(tsEncoder') = Anchor(tsEncoder)
        /\ ResetStep => ~tsEncoder'.anchored
        /\ (tsEncoder.anchored /\ ~tsEncoder'.anchored) => ResetStep]_vars

\* C18 (witness): a call anchored the encoder to the clock reading (1, 1),
\* which is not what it is constructed with, and a later call on a larger
\* index has left that anchor in place.
C18_Witness ==
  /\ tsCall.made
  /\ tsCall.later
  /\ tsEncoder.anchored
  /\ Anchor(tsEncoder) = <<tsCall.baseSec, tsCall.baseNsec>>
  /\ tsEncoder.baseSec = 1
  /\ tsEncoder.baseNsec = 1

=============================================================================
